---- MODULE Spec2Model ----
(***************************************************************************)
(* MJPEG camera web server (rpi/camera_web/main.py).                       *)
(*                                                                         *)
(* One capture thread calls StreamingOutput.write for every encoded frame; *)
(* every /stream.mjpg connection runs StreamingHandler.do_GET in a thread  *)
(* of its own (ThreadingMixIn) and loops: wait on output.condition, read   *)
(* output.frame, write one multipart part to its socket.                   *)
(*                                                                         *)
(* threading.Condition is modelled by its lock owner and its list of       *)
(* waiters: wait() releases the lock and enqueues the caller, notify_all() *)
(* dequeues every waiter, and a dequeued waiter re-acquires the lock       *)
(* before wait() returns.                                                  *)
(***************************************************************************)
EXTENDS Integers, Sequences, FiniteSets, TLC

\* ------------------------------------------------------------------ bounds
NumReaders == 2
MaxPublish == 3
MaxFrameLen == 2
NumSnaps == 2
SnapSpecReaders == 1
SnapSpecSnaps == 1
TicksPerSecond == 2
MaxTicks == 3

\* The /stream.mjpg connections and the /snapshot connections.
Readers == 1..NumReaders
Snaps == 1..NumSnaps

\* The capture thread's id as a lock owner, and the free lock.
Producer == 0
NoOwner == -1

\* ------------------------------------------------------------------ values
\* output.frame is None until the first write, then a bytes object. Every
\* buffer the encoder hands to write is an object of its own: id tells two
\* buffers of equal content apart (the n-th buffer written has id n).
None == [some |-> FALSE, bytes |-> <<>>, id |-> 0]
Some(b, n) == [some |-> TRUE, bytes |-> b, id |-> n]

\* The JPEG buffers the encoder may hand to write: frame i is i bytes long.
Frames == { [j \in 1..i |-> i] : i \in 1..MaxFrameLen }

\* What goes down a socket, one record per write or header line.
StatusLine(code) == [k |-> "status", name |-> "", s |-> "", n |-> code, b |-> <<>>]
HeaderS(name, val) == [k |-> "header", name |-> name, s |-> val, n |-> 0, b |-> <<>>]
HeaderN(name, val) == [k |-> "header", name |-> name, s |-> "", n |-> val, b |-> <<>>]
EndHeaders == [k |-> "blank", name |-> "", s |-> "\r\n", n |-> 0, b |-> <<>>]
Raw(text) == [k |-> "raw", name |-> "", s |-> text, n |-> 0, b |-> <<>>]
Bytes(data) == [k |-> "bytes", name |-> "", s |-> "", n |-> 0, b |-> data]

\* BaseHTTPRequestHandler.send_response: status line, Server and Date headers,
\* all buffered until end_headers.
SendResponse(code) == << StatusLine(code), HeaderS("Server", ""), HeaderS("Date", "") >>

\* The response head of /stream.mjpg.
StreamHead ==
    SendResponse(200) \o
    << HeaderN("Age", 0),
       HeaderS("Cache-Control", "no-cache, private"),
       HeaderS("Pragma", "no-cache"),
       HeaderS("Content-Type", "multipart/x-mixed-replace; boundary=FRAME"),
       EndHeaders >>

Boundary == Raw("--FRAME\r\n")
CRLF == Raw("\r\n")

\* Variant of the per-part headers: the two header lines in the other order.
PartHeaders_LengthFirst(f) ==
    << HeaderN("Content-Length", Len(f.bytes)),
       HeaderS("Content-Type", "image/jpeg"),
       EndHeaders >>

\* The per-part headers: Content-Type, Content-Length: len(frame), blank line.
PartHeaders(f) ==
    << HeaderS("Content-Type", "image/jpeg"),
       HeaderN("Content-Length", Len(f.bytes)),
       EndHeaders >>

\* ------------------------------------------------------------------- state
VARIABLES
    frame,       \* output.frame
    lockOwner,   \* who holds output.condition's lock
    waiters,     \* readers blocked inside output.condition.wait()
    wpc,         \* the capture thread's position inside write
    buf,         \* the argument of the write in progress
    published,   \* history: the frames stored so far, in order
    pc,          \* each stream handler's position
    conn,        \* each client's socket: open, stalled (not reading), closed
    local,       \* each handler's local variable frame
    wfile,       \* what each handler has written to its socket
    log,         \* what each handler has logged
    obtained,    \* history: for each handler, the ids of the frames it has read
    attachedAt,  \* history: how many frames had been stored when the handler
                 \*   began (0 once it has left its first with block)
    waitFrom,    \* history: how many frames had been stored when the handler last
                 \*   called wait() (0 outside the with block)
    wokenBy      \* history: the id of the frame whose notify_all released the
                 \*   handler from that wait (0 outside the with block)

\* The /snapshot handlers.
VARIABLES
    spc,         \* each snapshot handler's position
    sconn,       \* each snapshot client's socket: open, closed
    captured,    \* how the capture to file went: none yet, ok, makedirs or
                 \*   capture_file raised
    captures,    \* history: how many times the handler has called capture_file
    shbuf,       \* the handler's buffered header lines (_headers_buffer)
    swfile,      \* what the handler has written to its socket
    slog,        \* what the handler has logged
    now,         \* the wall clock, in ticks of 1/TicksPerSecond second
    stamp,       \* each handler's file name and, as history, the tick it was
                 \*   computed at
    files        \* the snapshots directory: for each file its name, and as
                 \*   history the tick of its name's timestamp and its writer

snapVars == << spc, sconn, captured, captures, shbuf, swfile, slog, now, stamp, files >>

\* The main program and the requests the listener dispatches.
VARIABLES
    mpc,         \* the main program's position
    argFlip,     \* the value given to --flip on the command line, or "omitted"
    flip,        \* args.flip
    transform,   \* the Transform the camera is configured with
    trace,       \* history: the lifecycle calls made so far, in order
    req,         \* the request being dispatched
    resp         \* the status line and Location header sent for it

mainVars == << mpc, argFlip, flip, transform, trace, req, resp >>

streamVars == << frame, lockOwner, waiters, wpc, buf, published,
                 pc, conn, local, wfile, log, obtained, attachedAt, waitFrom, wokenBy >>

vars == << streamVars, snapVars, mainVars >>

hist == << obtained, attachedAt, waitFrom, wokenBy >>

sinkVars == << frame, lockOwner, waiters, wpc, buf, published >>

\* No request yet, no response.
NoReq == [method |-> "", base |-> "", suffix |-> ""]
NoResp == [status |-> 0, location |-> "", route |-> ""]

\* No file name computed yet.
NoStamp == [set |-> FALSE, name |-> 0, at |-> 0]

\* The main program has started recording with the default transform and is
\* inside serve_forever.
Serving ==
    /\ mpc = "serving"
    /\ argFlip = "omitted"
    /\ flip = "none"
    /\ transform = [hflip |-> FALSE, vflip |-> FALSE]
    /\ trace = << "start_recording", "create_server", "serve_forever" >>
    /\ req = NoReq
    /\ resp = NoResp

Init ==
    /\ frame = None
    /\ lockOwner = NoOwner
    /\ waiters = {}
    /\ wpc = "idle"
    /\ buf = None
    /\ published = <<>>
    /\ pc = [r \in Readers |-> "idle"]
    /\ conn = [r \in Readers |-> "open"]
    /\ local = [r \in Readers |-> None]
    /\ wfile = [r \in Readers |-> <<>>]
    /\ log = [r \in Readers |-> <<>>]
    /\ obtained = [r \in Readers |-> <<>>]
    /\ attachedAt = [r \in Readers |-> 0]
    /\ waitFrom = [r \in Readers |-> 0]
    /\ wokenBy = [r \in Readers |-> 0]
    /\ spc = [s \in Snaps |-> "idle"]
    /\ sconn = [s \in Snaps |-> "open"]
    /\ captured = [s \in Snaps |-> "none"]
    /\ captures = [s \in Snaps |-> 0]
    /\ shbuf = [s \in Snaps |-> <<>>]
    /\ swfile = [s \in Snaps |-> <<>>]
    /\ slog = [s \in Snaps |-> <<>>]
    /\ now = 0
    /\ stamp = [s \in Snaps |-> NoStamp]
    /\ files = {}
    /\ Serving

\* ------------------------------------------------- StreamingOutput.write
\* The positions of a handler between its read of the frame and the end of
\* the part it sends.
WritePcs_Sending == {"boundary", "headers", "body", "crlf"}

\* with self.condition:  (acquire)
WriteEnter ==
    /\ wpc = "idle"
    /\ Len(published) < MaxPublish
    /\ lockOwner = NoOwner
    /\ \E b \in Frames : buf' = Some(b, Len(published) + 1)
    /\ lockOwner' = Producer
    /\ wpc' = "entered"
    /\ UNCHANGED << frame, waiters, published, pc, conn, local, wfile, log, hist >>
    /\ UNCHANGED snapVars
    /\ UNCHANGED mainVars

\* Variant of the assignment: a frame some handler is still sending is kept
\* and the new buffer is dropped.
WriteStore_KeepsUnread ==
    /\ wpc = "entered"
    /\ frame' = IF \E r \in Readers : pc[r] \in WritePcs_Sending /\ local[r] = frame
                THEN frame ELSE buf
    /\ published' = Append(published, buf)
    /\ wpc' = "stored"
    /\ UNCHANGED << lockOwner, waiters, buf, pc, conn, local, wfile, log, hist >>
    /\ UNCHANGED snapVars
    /\ UNCHANGED mainVars

\* self.frame = buf
WriteStore ==
    /\ wpc = "entered"
    /\ frame' = buf
    /\ published' = Append(published, buf)
    /\ wpc' = "stored"
    /\ UNCHANGED << lockOwner, waiters, buf, pc, conn, local, wfile, log, hist >>
    /\ UNCHANGED snapVars
    /\ UNCHANGED mainVars

\* Variant of the notification: notify() for notify_all().
Notified_One(ws) == IF ws = {} THEN {} ELSE {CHOOSE r \in ws : TRUE}

\* The waiters a notification releases.
Notified(ws) == ws

\* self.condition.notify_all()
WriteNotifyAll ==
    /\ wpc = "stored"
    /\ waiters' = waiters \ Notified(waiters)
    /\ pc' = [r \in Readers |-> IF r \in Notified(waiters) THEN "notified" ELSE pc[r]]
    /\ wokenBy' = [r \in Readers |-> IF r \in Notified(waiters) THEN frame.id ELSE wokenBy[r]]
    /\ wpc' = "notifying"
    /\ UNCHANGED << frame, lockOwner, buf, published, conn, local, wfile, log,
                    obtained, attachedAt, waitFrom >>
    /\ UNCHANGED snapVars
    /\ UNCHANGED mainVars

\* leaving the with block (release)
WriteExit ==
    /\ wpc = "notifying"
    /\ lockOwner' = NoOwner
    /\ wpc' = "idle"
    /\ UNCHANGED << frame, waiters, buf, published, pc, conn, local, wfile, log, hist >>
    /\ UNCHANGED snapVars
    /\ UNCHANGED mainVars

\* ------------------------------------------------------------ the sockets
\* self.wfile.write(data) returns: the peer is connected and reading.
Sent(r, toks) ==
    /\ conn[r] = "open"
    /\ wfile' = [wfile EXCEPT ![r] = @ \o toks]

\* The exceptions self.wfile.write can raise: the peer has gone, or some
\* other fault of the transport. A stalled peer raises nothing: the write blocks.
FaultsOf(c) ==
    CASE c = "closed" -> {"BrokenPipeError", "ConnectionResetError"}
      [] c = "open" -> {"OSError"}
      [] OTHER -> {}

WriteFaults(r) == FaultsOf(conn[r])

\* The handler's positions at a socket write of the streaming loop.
WritePcs == {"boundary", "headers", "body", "crlf"}

\* The client stops reading and the send buffer is full: the handler's
\* pending write blocks.
ClientStall(r) ==
    /\ pc[r] \in WritePcs
    /\ conn[r] = "open"
    /\ conn' = [conn EXCEPT ![r] = "stalled"]
    /\ UNCHANGED << sinkVars, pc, local, wfile, log, hist >>
    /\ UNCHANGED snapVars
    /\ UNCHANGED mainVars

\* The client reads again.
ClientResume(r) ==
    /\ conn[r] = "stalled"
    /\ conn' = [conn EXCEPT ![r] = "open"]
    /\ UNCHANGED << sinkVars, pc, local, wfile, log, hist >>
    /\ UNCHANGED snapVars
    /\ UNCHANGED mainVars

\* The client closes its socket.
ClientClose(r) ==
    /\ pc[r] \notin {"idle", "done", "crashed"}
    /\ conn[r] # "closed"
    /\ conn' = [conn EXCEPT ![r] = "closed"]
    /\ UNCHANGED << sinkVars, pc, local, wfile, log, hist >>
    /\ UNCHANGED snapVars
    /\ UNCHANGED mainVars

\* ------------------------------------- StreamingHandler.do_GET, /stream.mjpg
\* The log record of the except clauses of the streaming loop.
Warning(exc) ==
    IF exc \in {"BrokenPipeError", "ConnectionResetError"}
    THEN [level |-> "warning", msg |-> "Client disconnected."]
    ELSE [level |-> "warning", msg |-> exc]

\* Variants of the handling: no try block around the loop; a try block inside
\* the loop, which goes on to the next pass.
Caught_Propagates(r, exc) ==
    /\ pc' = [pc EXCEPT ![r] = "crashed"]
    /\ UNCHANGED log
Caught_Continues(r, exc) ==
    /\ pc' = [pc EXCEPT ![r] = "loop"]
    /\ log' = [log EXCEPT ![r] = Append(@, Warning(exc))]

\* Where an exception raised inside the try block takes the handler.
Caught(r, exc) ==
    /\ pc' = [pc EXCEPT ![r] = "done"]
    /\ log' = [log EXCEPT ![r] = Append(@, Warning(exc))]

\* An exception raised outside any try block leaves do_GET.
Uncaught(r) ==
    /\ pc' = [pc EXCEPT ![r] = "crashed"]
    /\ UNCHANGED log

\* send_response(200), the four stream headers, end_headers.
StreamBegin(r) ==
    /\ pc[r] = "idle"
    /\ \/ /\ Sent(r, StreamHead)
          /\ pc' = [pc EXCEPT ![r] = "loop"]
          /\ UNCHANGED log
       \/ /\ WriteFaults(r) # {}
          /\ Uncaught(r)
          /\ UNCHANGED wfile
    /\ attachedAt' = [attachedAt EXCEPT ![r] = Len(published)]
    /\ UNCHANGED << sinkVars, conn, local, obtained, waitFrom, wokenBy >>
    /\ UNCHANGED snapVars
    /\ UNCHANGED mainVars

\* with output.condition:  (acquire)
CondEnter(r) ==
    /\ pc[r] = "loop"
    /\ lockOwner = NoOwner
    /\ lockOwner' = r
    /\ pc' = [pc EXCEPT ![r] = "entered"]
    /\ UNCHANGED << frame, waiters, wpc, buf, published, conn, local, wfile, log, hist >>
    /\ UNCHANGED snapVars
    /\ UNCHANGED mainVars

\* Variants of the wait: block only while no frame is there; block only
\* while the sink holds nothing newer than the handler's last frame; skip the
\* wait on the handler's first pass.
MustWait_IfAbsent(r) == ~frame.some
MustWait_IfNotNewer(r) ==
    frame.id <= (IF obtained[r] = <<>> THEN 0 ELSE obtained[r][Len(obtained[r])])
MustWait_AfterFirst(r) == obtained[r] # <<>>

\* Whether wait() blocks: it is called with no predicate.
MustWait(r) == TRUE

\* output.condition.wait(): release the lock and join the waiters
CondWait(r) ==
    /\ pc[r] = "entered"
    /\ IF MustWait(r)
       THEN /\ lockOwner' = NoOwner
            /\ waiters' = waiters \cup {r}
            /\ pc' = [pc EXCEPT ![r] = "waiting"]
       ELSE /\ pc' = [pc EXCEPT ![r] = "woken"]
            /\ UNCHANGED << lockOwner, waiters >>
    /\ waitFrom' = [waitFrom EXCEPT ![r] = Len(published)]
    /\ UNCHANGED << frame, wpc, buf, published, conn, local, wfile, log,
                    obtained, attachedAt, wokenBy >>
    /\ UNCHANGED snapVars
    /\ UNCHANGED mainVars

\* wait() returns: the notified reader has the lock again
CondWake(r) ==
    /\ pc[r] = "notified"
    /\ lockOwner = NoOwner
    /\ lockOwner' = r
    /\ pc' = [pc EXCEPT ![r] = "woken"]
    /\ UNCHANGED << frame, waiters, wpc, buf, published, conn, local, wfile, log, hist >>
    /\ UNCHANGED snapVars
    /\ UNCHANGED mainVars

\* Variant of the read: frames are queued and handed out in order.
FrameRead_Queued(r) ==
    IF waitFrom[r] < Len(published) THEN published[waitFrom[r] + 1] ELSE frame

\* The value of output.frame as the handler reads it.
FrameRead(r) == frame

\* frame = output.frame
ReadFrame(r) ==
    /\ pc[r] = "woken"
    /\ local' = [local EXCEPT ![r] = FrameRead(r)]
    /\ obtained' = [obtained EXCEPT ![r] = Append(@, FrameRead(r).id)]
    /\ pc' = [pc EXCEPT ![r] = "read"]
    /\ UNCHANGED << sinkVars, conn, wfile, log, attachedAt, waitFrom, wokenBy >>
    /\ UNCHANGED snapVars
    /\ UNCHANGED mainVars

\* Variant: the socket writes are inside the with block.
OwnerAfterRead_Held(r) == r

\* Who holds the lock once the handler has read the frame: the with block
\* ends before the first socket write.
OwnerAfterRead(r) == NoOwner

\* leaving the with block (release)
CondExit(r) ==
    /\ pc[r] = "read"
    /\ lockOwner' = OwnerAfterRead(r)
    /\ pc' = [pc EXCEPT ![r] = "boundary"]
    /\ waitFrom' = [waitFrom EXCEPT ![r] = 0]
    /\ wokenBy' = [wokenBy EXCEPT ![r] = 0]
    /\ attachedAt' = [attachedAt EXCEPT ![r] = 0]
    /\ UNCHANGED << frame, waiters, wpc, buf, published, conn, local, wfile, log,
                    obtained >>
    /\ UNCHANGED snapVars
    /\ UNCHANGED mainVars

\* One write of the loop body: it returns, or it raises into the except clauses.
LoopWrite(r, toks, nextpc) ==
    \/ /\ Sent(r, toks)
       /\ pc' = [pc EXCEPT ![r] = nextpc]
       /\ UNCHANGED log
    \/ /\ \E exc \in WriteFaults(r) : Caught(r, exc)
       /\ UNCHANGED wfile

\* self.wfile.write(b'--FRAME\r\n')
WriteBoundary(r) ==
    /\ pc[r] = "boundary"
    /\ LoopWrite(r, << Boundary >>, "headers")
    /\ UNCHANGED << sinkVars, conn, local, hist >>
    /\ UNCHANGED snapVars
    /\ UNCHANGED mainVars

\* send_header Content-Type, send_header Content-Length len(frame), end_headers
WritePartHeaders(r) ==
    /\ pc[r] = "headers"
    /\ IF local[r].some
       THEN LoopWrite(r, PartHeaders(local[r]), "body")
       ELSE Caught(r, "TypeError") /\ UNCHANGED wfile
    /\ UNCHANGED << sinkVars, conn, local, hist >>
    /\ UNCHANGED snapVars
    /\ UNCHANGED mainVars

\* Variant of the body write: the sink's current frame is written instead of
\* the frame read under the lock.
WriteFrame_Shared(r) ==
    /\ pc[r] = "body"
    /\ LoopWrite(r, << Bytes(frame.bytes) >>, "crlf")
    /\ UNCHANGED << sinkVars, conn, local, hist >>
    /\ UNCHANGED snapVars
    /\ UNCHANGED mainVars

\* self.wfile.write(frame)
WriteFrame(r) ==
    /\ pc[r] = "body"
    /\ LoopWrite(r, << Bytes(local[r].bytes) >>, "crlf")
    /\ UNCHANGED << sinkVars, conn, local, hist >>
    /\ UNCHANGED snapVars
    /\ UNCHANGED mainVars

\* self.wfile.write(b'\r\n'), and round the loop again
WriteCRLF(r) ==
    /\ pc[r] = "crlf"
    /\ LoopWrite(r, << CRLF >>, "loop")
    /\ UNCHANGED << sinkVars, conn, local, hist >>
    /\ UNCHANGED snapVars
    /\ UNCHANGED mainVars

\* --------------------------------------- StreamingHandler.do_GET, /snapshot
\* Variant of the failure reply: the status is left at 200.
FailedReply_Status200 == [status |-> 200, body |-> "Failed to save snapshot."]

\* The status and the body of the two replies.
SavedReply == [status |-> 200, body |-> "Snapshot saved."]
FailedReply == [status |-> 500, body |-> "Failed to save snapshot."]

\* Control passes to the except clause: logging.error with the exception.
SnapExcept(s, exc) ==
    /\ slog' = [slog EXCEPT ![s] = Append(@, [level |-> "error", msg |-> exc])]
    /\ spc' = [spc EXCEPT ![s] = "except"]

\* The wall clock advances.
Tick ==
    /\ now < MaxTicks
    /\ now' = now + 1
    /\ UNCHANGED << spc, sconn, captured, captures, shbuf, swfile, slog, stamp, files >>
    /\ UNCHANGED streamVars
    /\ UNCHANGED mainVars

\* The second a tick falls in.
Second(t) == t \div TicksPerSecond

\* Variant of the time format: the name keeps the fraction of the second.
Filename_SubSecond(t) == t

\* strftime("%Y%m%d_%H%M%S") and the name made of it: the time cut to whole
\* seconds.
Filename(t) == Second(t)

\* timestamp = datetime.now().strftime(...); filename; filepath
SnapStamp(s) ==
    /\ spc[s] = "idle"
    /\ stamp' = [stamp EXCEPT ![s] = [set |-> TRUE, name |-> Filename(now), at |-> now]]
    /\ spc' = [spc EXCEPT ![s] = "stamped"]
    /\ UNCHANGED << sconn, captured, captures, shbuf, swfile, slog, now, files, streamVars >>
    /\ UNCHANGED mainVars

\* The directory after a file of the handler's name is written: a file of
\* that name is replaced.
Written(s) ==
    { f \in files : f.name # stamp[s].name }
        \cup {[name |-> stamp[s].name, at |-> stamp[s].at, by |-> s]}

\* os.makedirs, picam2.capture_file: the file is written, or makedirs
\* raises, or capture_file raises, before or after it wrote the file.
SnapCapture(s) ==
    /\ spc[s] = "stamped"
    /\ \/ /\ captured' = [captured EXCEPT ![s] = "ok"]
          /\ captures' = [captures EXCEPT ![s] = @ + 1]
          /\ files' = Written(s)
          /\ spc' = [spc EXCEPT ![s] = "saved"]
          /\ UNCHANGED slog
       \/ /\ captured' = [captured EXCEPT ![s] = "makedirs"]
          /\ UNCHANGED << captures, files >>
          /\ SnapExcept(s, "OSError")
       \/ /\ captured' = [captured EXCEPT ![s] = "capture_file"]
          /\ captures' = [captures EXCEPT ![s] = @ + 1]
          /\ files' \in {files, Written(s)}
          /\ SnapExcept(s, "RuntimeError")
    /\ UNCHANGED << sconn, shbuf, swfile, now, stamp, streamVars >>
    /\ UNCHANGED mainVars

\* end_headers: the buffered lines and the blank line go out in one write,
\* and the buffer is emptied once that write has returned.
SnapFlush(s, lines) ==
    /\ sconn[s] = "open"
    /\ swfile' = [swfile EXCEPT ![s] = @ \o shbuf[s] \o lines \o << EndHeaders >>]
    /\ shbuf' = [shbuf EXCEPT ![s] = <<>>]

\* The write of end_headers raises: the lines stay in the buffer.
SnapFlushFails(s, lines) ==
    /\ FaultsOf(sconn[s]) # {}
    /\ shbuf' = [shbuf EXCEPT ![s] = @ \o lines \o << EndHeaders >>]
    /\ UNCHANGED swfile

\* self.send_response(200); self.end_headers()
SnapSendSaved(s) ==
    /\ spc[s] = "saved"
    /\ \/ /\ SnapFlush(s, SendResponse(SavedReply.status))
          /\ spc' = [spc EXCEPT ![s] = "saved_body"]
          /\ UNCHANGED slog
       \/ /\ SnapFlushFails(s, SendResponse(SavedReply.status))
          /\ \E exc \in FaultsOf(sconn[s]) : SnapExcept(s, exc)
    /\ UNCHANGED << sconn, captured, captures, now, stamp, files, streamVars >>
    /\ UNCHANGED mainVars

\* self.wfile.write(b"Snapshot saved."); logging.info(...)
SnapWriteSaved(s) ==
    /\ spc[s] = "saved_body"
    /\ \/ /\ sconn[s] = "open"
          /\ swfile' = [swfile EXCEPT ![s] = Append(@, Raw(SavedReply.body))]
          /\ slog' = [slog EXCEPT ![s] = Append(@, [level |-> "info", msg |-> "Snapshot saved"])]
          /\ spc' = [spc EXCEPT ![s] = "done"]
       \/ /\ \E exc \in FaultsOf(sconn[s]) : SnapExcept(s, exc)
          /\ UNCHANGED swfile
    /\ UNCHANGED << sconn, captured, captures, shbuf, now, stamp, files, streamVars >>
    /\ UNCHANGED mainVars

\* in the except clause: self.send_response(500); self.end_headers()
SnapSendFailed(s) ==
    /\ spc[s] = "except"
    /\ \/ /\ SnapFlush(s, SendResponse(FailedReply.status))
          /\ spc' = [spc EXCEPT ![s] = "failed_body"]
       \/ /\ SnapFlushFails(s, SendResponse(FailedReply.status))
          /\ spc' = [spc EXCEPT ![s] = "crashed"]
    /\ UNCHANGED << sconn, captured, captures, slog, now, stamp, files, streamVars >>
    /\ UNCHANGED mainVars

\* in the except clause: self.wfile.write(b"Failed to save snapshot.")
SnapWriteFailed(s) ==
    /\ spc[s] = "failed_body"
    /\ \/ /\ sconn[s] = "open"
          /\ swfile' = [swfile EXCEPT ![s] = Append(@, Raw(FailedReply.body))]
          /\ spc' = [spc EXCEPT ![s] = "done"]
       \/ /\ FaultsOf(sconn[s]) # {}
          /\ spc' = [spc EXCEPT ![s] = "crashed"]
          /\ UNCHANGED swfile
    /\ UNCHANGED << sconn, captured, captures, shbuf, slog, now, stamp, files, streamVars >>
    /\ UNCHANGED mainVars

\* The snapshot client closes its socket.
SnapClientClose(s) ==
    /\ spc[s] \notin {"done", "crashed"}
    /\ sconn[s] = "open"
    /\ sconn' = [sconn EXCEPT ![s] = "closed"]
    /\ UNCHANGED << spc, captured, captures, shbuf, swfile, slog, now, stamp, files, streamVars >>
    /\ UNCHANGED mainVars

\* ------------------------------------- StreamingHandler, method and path
\* The request targets tried: a path, then nothing, a query string or a
\* trailing slash.
Bases == {"/", "/index.html", "/stream.mjpg", "/snapshot",
          "/INDEX.HTML", "/Snapshot", "/Stream.mjpg", "/unknown"}
Suffixes == {"", "?x=1", "/"}
Methods == {"GET", "POST", "HEAD", "PUT"}

\* self.path: the request target as received, query string included.
Path(q) == q.base \o q.suffix

\* Variant of the path comparison: the query string is cut off first.
RouteOf_QueryStripped(q) ==
    IF q.suffix = "?x=1" THEN q.base ELSE Path(q)

\* The text do_GET compares with its four literals.
RouteOf(q) == Path(q)

\* Variant of the comparison: letter case is ignored.
Is_AnyCase(path, literal) ==
    \/ path = literal
    \/ path = "/INDEX.HTML" /\ literal = "/index.html"
    \/ path = "/Snapshot" /\ literal = "/snapshot"
    \/ path = "/Stream.mjpg" /\ literal = "/stream.mjpg"

\* path == literal
Is(path, literal) == path = literal

\* The if/elif chain of do_GET: the branch taken for a path.
DoGet(path) ==
    IF Is(path, "/") THEN "redirect"
    ELSE IF Is(path, "/index.html") THEN "page"
    ELSE IF Is(path, "/stream.mjpg") THEN "stream"
    ELSE IF Is(path, "/snapshot") THEN "snapshot"
    ELSE "not_found"

\* Variant of the handler class: every method is served by do_GET.
HasHandler_All(method) == TRUE

\* The handler class defines do_GET and no other do_<METHOD>.
HasHandler(method) == method = "GET"

\* The request is dispatched to do_GET, or refused by the base class, which
\* answers a method without a do_<METHOD> with 501 Unsupported method.
Route(q) ==
    IF HasHandler(q.method) THEN DoGet(RouteOf(q)) ELSE "unsupported_method"

\* The status lines a branch can send first.
StatusesOf(route) ==
    CASE route = "redirect" -> {301}
      [] route = "page" -> {200}
      [] route = "stream" -> {200}
      [] route = "snapshot" -> {SavedReply.status, FailedReply.status}
      [] route = "not_found" -> {404}
      [] route = "unsupported_method" -> {501}

\* The Location header of a branch ("" when it sends none).
LocationOf(route) == IF route = "redirect" THEN "/index.html" ELSE ""

\* The listener receives a request and the handler answers it.
Dispatch ==
    /\ mpc = "serving"
    /\ \E m \in Methods, b \in Bases, x \in Suffixes :
          /\ ~(b = "/" /\ x = "/")
          /\ req' = [method |-> m, base |-> b, suffix |-> x]
    /\ \E st \in StatusesOf(Route(req')) :
          resp' = [status |-> st, location |-> LocationOf(Route(req')),
                   route |-> Route(req')]
    /\ UNCHANGED << mpc, argFlip, flip, transform, trace, streamVars, snapVars >>

\* -------------------------------------------------------------- __main__
\* The command lines tried: no --flip, its four choices, and a value that is
\* not a choice.
Choices == {"none", "h", "v", "hv"}
ArgFlips == {"omitted"} \cup Choices \cup {"x"}

\* c in text, for a one-character c.
In(c, text) == \E i \in 1..Len(text) : SubSeq(text, i, i) = c

\* Variant of the transform: the value is compared with the letter.
Transform_Equal(f) == [hflip |-> f = "h", vflip |-> f = "v"]

\* Transform(hflip="h" in args.flip, vflip="v" in args.flip)
Transform(f) == [hflip |-> In("h", f), vflip |-> In("v", f)]

\* The process starts with some command line.
InitMain ==
    /\ frame = None
    /\ lockOwner = NoOwner
    /\ waiters = {}
    /\ wpc = "idle"
    /\ buf = None
    /\ published = <<>>
    /\ pc = [r \in Readers |-> "idle"]
    /\ conn = [r \in Readers |-> "open"]
    /\ local = [r \in Readers |-> None]
    /\ wfile = [r \in Readers |-> <<>>]
    /\ log = [r \in Readers |-> <<>>]
    /\ obtained = [r \in Readers |-> <<>>]
    /\ attachedAt = [r \in Readers |-> 0]
    /\ waitFrom = [r \in Readers |-> 0]
    /\ wokenBy = [r \in Readers |-> 0]
    /\ spc = [s \in Snaps |-> "idle"]
    /\ sconn = [s \in Snaps |-> "open"]
    /\ captured = [s \in Snaps |-> "none"]
    /\ captures = [s \in Snaps |-> 0]
    /\ shbuf = [s \in Snaps |-> <<>>]
    /\ swfile = [s \in Snaps |-> <<>>]
    /\ slog = [s \in Snaps |-> <<>>]
    /\ now = 0
    /\ stamp = [s \in Snaps |-> NoStamp]
    /\ files = {}
    /\ mpc = "start"
    /\ argFlip \in ArgFlips
    /\ flip = ""
    /\ transform = [hflip |-> FALSE, vflip |-> FALSE]
    /\ trace = <<>>
    /\ req = NoReq
    /\ resp = NoResp

\* A step of the main program: mpc and trace change as given.
MainStep(from, to, calls) ==
    /\ mpc = from
    /\ mpc' = to
    /\ trace' = trace \o calls
    /\ UNCHANGED << req, resp, streamVars, snapVars >>

\* parser.parse_args(): the default for an omitted flag, the value for a
\* choice, and the usage error exit for anything else.
MainParse ==
    /\ \/ /\ argFlip = "omitted"
          /\ flip' = "none"
          /\ MainStep("start", "parsed", <<>>)
       \/ /\ argFlip \in Choices
          /\ flip' = argFlip
          /\ MainStep("start", "parsed", <<>>)
       \/ /\ argFlip \notin Choices \cup {"omitted"}
          /\ flip' = flip
          /\ MainStep("start", "exited", <<>>)
    /\ UNCHANGED << argFlip, transform >>

\* transform = Transform(...); Picamera2(), create_video_configuration and
\* configure, which may raise when the camera is not usable.
MainConfigure ==
    /\ \/ /\ transform' = Transform(flip)
          /\ MainStep("parsed", "configured", <<>>)
       \/ /\ transform' = Transform(flip)
          /\ MainStep("parsed", "exited", <<>>)
    /\ UNCHANGED << argFlip, flip >>

\* picam2.start_recording(...), before the try statement: it returns with
\* the recording started, or raises and the process exits.
MainStartRecording ==
    /\ \/ MainStep("configured", "recording", << "start_recording" >>)
       \/ MainStep("configured", "exited", <<>>)
    /\ UNCHANGED << argFlip, flip, transform >>

\* Variant of the listener's creation: it is made before the try statement,
\* so a failure leaves the program at once.
AfterCreateFails_Exit == "exited"

\* Where control goes when StreamingServer(...) raises inside the try.
AfterCreateFails == "finally"

\* server = StreamingServer(address, StreamingHandler): the port is bound,
\* or binding raises OSError.
MainCreateServer ==
    /\ \/ MainStep("recording", "created", << "create_server" >>)
       \/ MainStep("recording", AfterCreateFails, << "create_server_failed" >>)
    /\ UNCHANGED << argFlip, flip, transform >>

\* server.serve_forever() begins to accept requests.
MainServe ==
    /\ MainStep("created", "serving", << "serve_forever" >>)
    /\ UNCHANGED << argFlip, flip, transform >>

\* KeyboardInterrupt inside the try statement.
MainInterrupt ==
    /\ \E at \in {"recording", "created", "serving"} :
          MainStep(at, "finally", << "interrupt" >>)
    /\ UNCHANGED << argFlip, flip, transform >>

\* finally: picam2.stop_recording(), and the process ends.
MainStop ==
    /\ MainStep("finally", "exited", << "stop_recording" >>)
    /\ UNCHANGED << argFlip, flip, transform >>

MainProgram ==
    \/ MainParse
    \/ MainConfigure
    \/ MainStartRecording
    \/ MainCreateServer
    \/ MainServe
    \/ MainInterrupt
    \/ MainStop

\* The main program and the requests its listener dispatches.
NextMain ==
    \/ MainProgram
    \/ Dispatch

MainSpec == InitMain /\ [][NextMain]_vars

\* ------------------------------------------------------------ the system
ProducerStep ==
    \/ WriteEnter
    \/ WriteStore
    \/ WriteNotifyAll
    \/ WriteExit

ReaderStep(r) ==
    \/ StreamBegin(r)
    \/ CondEnter(r)
    \/ CondWait(r)
    \/ CondWake(r)
    \/ ReadFrame(r)
    \/ CondExit(r)
    \/ WriteBoundary(r)
    \/ WritePartHeaders(r)
    \/ WriteFrame(r)
    \/ WriteCRLF(r)
    \/ ClientStall(r)
    \/ ClientResume(r)
    \/ ClientClose(r)

SnapStep(s) ==
    \/ SnapStamp(s)
    \/ SnapCapture(s)
    \/ SnapSendSaved(s)
    \/ SnapWriteSaved(s)
    \/ SnapSendFailed(s)
    \/ SnapWriteFailed(s)
    \/ SnapClientClose(s)

\* The capture thread and the stream handlers.
Next ==
    \/ ProducerStep
    \/ \E r \in Readers : ReaderStep(r)

Spec == Init /\ [][Next]_vars

\* The capture thread, SnapSpecSnaps of the snapshot handlers and
\* SnapSpecReaders of the stream handlers.
NextSnap ==
    \/ ProducerStep
    \/ \E r \in 1..SnapSpecReaders : ReaderStep(r)
    \/ \E s \in 1..SnapSpecSnaps : SnapStep(s)

SnapSpec == Init /\ [][NextSnap]_vars

\* The snapshot handlers and the wall clock.
NextSnapPair ==
    \/ Tick
    \/ \E s \in Snaps : SnapStep(s)

SnapPairSpec == Init /\ [][NextSnapPair]_vars

\* ------------------------------------------------------------ properties
Last(q) == q[Len(q)]

\* The handler holds a frame it has read in this pass.
HoldsFrame(r) == pc[r] \in {"read", "boundary", "headers", "body", "crlf"}

\* C1: every frame a reader obtains is a present frame, it is the frame some
\* write stored, and it was stored strictly after the frame the reader
\* obtained on its previous pass: no publication is delivered twice to one
\* reader, and no wake-up delivers None.
C1_NoStaleRepeat ==
    \A r \in Readers :
        /\ \A i \in 1..Len(obtained[r]) :
              /\ obtained[r][i] \in 1..Len(published)
              /\ i > 1 => obtained[r][i - 1] < obtained[r][i]
        /\ HoldsFrame(r) =>
              /\ obtained[r] # <<>>
              /\ local[r].some
              /\ local[r] = published[Last(obtained[r])]

C1_Witness ==
    \E r \in Readers : Len(obtained[r]) >= 2 /\ HoldsFrame(r)


\* C2 as claimed: wait blocks only until the sink holds a frame newer than
\* the reader's last one. So no reader that has obtained a frame sits blocked
\* in wait, with the capture thread outside write, while the sink holds a
\* newer frame than the reader's last.
C2_Original ==
    \A r \in Readers :
        (pc[r] = "waiting" /\ obtained[r] # <<>> /\ wpc = "idle")
            => Last(obtained[r]) = frame.id

\* C2 amended: wait() returns only after a notify_all that finds the reader
\* waiting, and the frame the reader then reads is the current one and was
\* stored after the reader called wait(); a frame stored while the reader
\* was writing to its socket does not end its next wait.
C2_WaitNeedsPublish ==
    \A r \in Readers :
        /\ pc[r] \in {"notified", "woken"} =>
              /\ wokenBy[r] > waitFrom[r]
              /\ frame.id >= wokenBy[r]
        /\ pc[r] = "read" =>
              /\ Last(obtained[r]) > waitFrom[r]
              /\ local[r] = frame

\* A frame was stored while the reader was writing, and the reader went on
\* to obtain a later one.
C2_Witness ==
    \E r \in Readers :
        /\ pc[r] = "read"
        /\ Len(obtained[r]) >= 2
        /\ Last(obtained[r]) > obtained[r][Len(obtained[r]) - 1] + 1

\* C3: latest wins. When two frames are stored during one wait of a reader,
\* before it has read, the reader obtains the newer one only: what it reads
\* is the last frame stored, every frame it obtained earlier was stored
\* before that wait began, and it sends one part per frame obtained.
PartsBegun(r) == Cardinality({ i \in 1..Len(wfile[r]) : wfile[r][i] = Boundary })

C3_LatestWins ==
    \A r \in Readers :
        /\ pc[r] = "read" =>
              /\ Last(obtained[r]) = Len(published)
              /\ local[r] = Last(published)
              /\ \A i \in 1..(Len(obtained[r]) - 1) : obtained[r][i] <= waitFrom[r]
        /\ PartsBegun(r) <= Len(obtained[r])

\* Two frames were stored between the reader's call of wait and its read.
C3_Witness ==
    \E r \in Readers :
        /\ pc[r] = "read"
        /\ wokenBy[r] = waitFrom[r] + 1
        /\ Len(published) >= waitFrom[r] + 2

C5_StepOk ==
    /\ (wpc = "stored" /\ wpc' = "notifying") =>
          /\ waiters' = {}
          /\ \A r \in Readers : pc[r] = "waiting" => pc'[r] = "notified"
    /\ \A r \in Readers :
          (pc[r] = "woken" /\ pc'[r] = "read") =>
              /\ Last(obtained'[r]) >= wokenBy[r]
              /\ wokenBy[r] >= 1
              /\ frame' = frame
              /\ \A q \in Readers \ {r} :
                    /\ pc'[q] = pc[q]
                    /\ local'[q] = local[q]
                    /\ obtained'[q] = obtained[q]
                    /\ wfile'[q] = wfile[q]

C5_Broadcast == [][C5_StepOk]_vars

\* Two readers were released by the same notify_all, one has read its frame
\* and gone on, the other reads the same frame after it.
C5_Witness ==
    \E r, q \in Readers :
        /\ r # q
        /\ pc[r] = "read" /\ HoldsFrame(q) /\ pc[q] # "read"
        /\ Last(obtained[r]) = Last(obtained[q])
        /\ wokenBy[r] = Last(obtained[r])

\* C6: a reader holds the lock of the frame sink only between entering the
\* with block and leaving it after the read, never at a socket write. So
\* with a reader stalled in a write, the lock is free or held by a thread
\* that is not blocked, the capture thread can go on with its write, and
\* every other reader can take its next step.
LockHeldPcs == {"entered", "woken", "read"}

WriteStep(q) == WriteBoundary(q) \/ WritePartHeaders(q) \/ WriteFrame(q) \/ WriteCRLF(q)
LockedStep(q) == CondWait(q) \/ ReadFrame(q) \/ CondExit(q)
ProducerLockedStep == WriteStore \/ WriteNotifyAll \/ WriteExit

OthersProceed(r) ==
    /\ lockOwner # r
    /\ lockOwner = Producer => ENABLED ProducerLockedStep
    /\ lockOwner \in Readers => ENABLED LockedStep(lockOwner)
    /\ wpc # "idle" => ENABLED ProducerLockedStep
    /\ (wpc = "idle" /\ lockOwner = NoOwner /\ Len(published) < MaxPublish)
          => ENABLED WriteEnter
    /\ \A q \in Readers \ {r} :
          /\ (pc[q] = "loop" /\ lockOwner = NoOwner) => ENABLED CondEnter(q)
          /\ (pc[q] = "notified" /\ lockOwner = NoOwner) => ENABLED CondWake(q)
          /\ pc[q] \in LockHeldPcs => ENABLED LockedStep(q)
          /\ (pc[q] \in WritePcs /\ conn[q] # "stalled") => ENABLED WriteStep(q)

C6_StalledWriterBlocksNoOne ==
    \A r \in Readers :
        /\ lockOwner = r <=> pc[r] \in LockHeldPcs
        /\ (pc[r] \in WritePcs /\ conn[r] = "stalled") => OthersProceed(r)

\* A reader is stalled in a write while a frame newer than its own has been
\* stored and another reader has read it.
C6_Witness ==
    \E r, q \in Readers :
        /\ r # q
        /\ pc[r] \in WritePcs /\ conn[r] = "stalled"
        /\ pc[q] = "read"
        /\ Last(obtained[q]) > Last(obtained[r])

\* C7: a stream handler leaves its loop only by a socket write of its own
\* that raises; the exception is caught in the handler, which logs one
\* warning and ends, and the step changes neither the frame sink nor any
\* other handler.
LoopPcs == {"loop", "entered", "waiting", "notified", "woken", "read"} \cup WritePcs

OthersUnchanged(r) ==
    \A q \in Readers \ {r} :
        /\ pc'[q] = pc[q]
        /\ conn'[q] = conn[q]
        /\ local'[q] = local[q]
        /\ wfile'[q] = wfile[q]
        /\ log'[q] = log[q]
        /\ obtained'[q] = obtained[q]

C7_StepOk ==
    \A r \in Readers :
        (pc[r] \in LoopPcs /\ pc'[r] \notin LoopPcs) =>
            /\ pc[r] \in WritePcs
            /\ conn[r] # "stalled"
            /\ wfile'[r] = wfile[r]
            /\ pc'[r] = "done"
            /\ log'[r] = Append(log[r],
                  [level |-> "warning",
                   msg |-> IF conn[r] = "closed" THEN "Client disconnected." ELSE "OSError"])
            /\ UNCHANGED sinkVars
            /\ OthersUnchanged(r)

C7_LoopEndsOnlyOnWriteFault == [][C7_StepOk]_vars

\* One handler has ended with its warning logged; another has since read a
\* newer frame.
C7_Witness ==
    \E r, q \in Readers :
        /\ r # q
        /\ pc[r] = "done" /\ Len(log[r]) = 1 /\ obtained[r] # <<>>
        /\ pc[q] = "read"
        /\ Last(obtained[q]) > Last(obtained[r])

\* C8: once its client has closed the socket, a stream handler writes nothing
\* more and starts no further pass after the one that meets the close: from a
\* socket write it can only end, with the fault caught and logged as a
\* warning by the handler itself, and no other handler's position or log
\* changes with it; it never leaves do_GET by an exception.
C8_StepOk ==
    \A r \in Readers :
        conn[r] = "closed" =>
            /\ wfile'[r] = wfile[r]
            /\ pc[r] = "read" => pc'[r] \in {"read", "boundary"}
            /\ pc[r] \in WritePcs => pc'[r] \in {pc[r], "done"}
            /\ pc'[r] = "crashed" => pc[r] = "crashed"
            /\ (pc[r] \in WritePcs /\ pc'[r] = "done") =>
                  /\ log'[r] = Append(log[r],
                        [level |-> "warning", msg |-> "Client disconnected."])
                  /\ \A q \in Readers \ {r} : pc'[q] = pc[q] /\ log'[q] = log[q]

C8_ClosedClientEndsLoop == [][C8_StepOk]_vars

\* A client closed its socket while its handler was waiting, after at least
\* one part; the handler has met the next frame and ended.
C8_Witness ==
    \E r \in Readers :
        /\ conn[r] = "closed" /\ pc[r] = "done"
        /\ Len(obtained[r]) >= 2
        /\ PartsBegun(r) = Len(obtained[r]) - 1
        /\ Last(log[r]).msg = "Client disconnected."

\* C9: what a stream handler has written is the response head once, then
\* for every frame obtained, in order, exactly: the boundary line, the
\* Content-Type header, the Content-Length header with the frame's length,
\* the blank line, the frame's bytes and CRLF -- up to the write the handler
\* has reached.
ExpectedPart(f) ==
    << Raw("--FRAME\r\n"),
       HeaderS("Content-Type", "image/jpeg"),
       HeaderN("Content-Length", Len(f.bytes)),
       EndHeaders,
       Bytes(f.bytes),
       Raw("\r\n") >>

RECURSIVE ExpectedParts(_, _)
ExpectedParts(ids, i) ==
    IF i > Len(ids) THEN <<>>
    ELSE ExpectedPart(published[ids[i]]) \o ExpectedParts(ids, i + 1)

IsPrefix(a, b) == Len(a) <= Len(b) /\ SubSeq(b, 1, Len(a)) = a

\* How much of the part of the frame in hand is still to be written.
Pending(r) ==
    CASE pc[r] \in {"read", "boundary"} -> 6
      [] pc[r] = "headers" -> 5
      [] pc[r] = "body" -> 2
      [] pc[r] = "crlf" -> 1
      [] OTHER -> 0

C9_PartOrder ==
    \A r \in Readers :
        IF pc[r] \in {"idle", "crashed"}
        THEN wfile[r] = <<>>
        ELSE LET exp == StreamHead \o ExpectedParts(obtained[r], 1)
             IN /\ IsPrefix(wfile[r], exp)
                /\ wfile[r][1] = StatusLine(200)
                /\ Cardinality({ i \in 1..Len(wfile[r]) : wfile[r][i].k = "status" }) = 1
                /\ pc[r] # "done" => Len(wfile[r]) = Len(exp) - Pending(r)
                /\ pc[r] = "done" =>
                      /\ obtained[r] # <<>>
                      /\ Len(wfile[r]) >= Len(exp) - 6

\* A handler has written two whole parts, of frames of different lengths.
C9_Witness ==
    \E r \in Readers :
        /\ pc[r] = "loop"
        /\ Len(obtained[r]) >= 2
        /\ Len(published[obtained[r][1]].bytes) # Len(published[obtained[r][2]].bytes)
        /\ Len(wfile[r]) = Len(StreamHead) + 12

\* C10: a /snapshot handler that ends with its writes done has sent 200 and
\* "Snapshot saved." if the capture to file succeeded, and 500 and "Failed to
\* save snapshot." if makedirs or capture_file raised; it calls capture_file
\* at most once and never starts over; and no step of a snapshot handler
\* changes the frame sink or any stream handler.
ExpectedReply(code, body) ==
    << StatusLine(code), HeaderS("Server", ""), HeaderS("Date", ""), EndHeaders, Raw(body) >>

NoErrorLogged(s) == \A i \in 1..Len(slog[s]) : slog[s][i].level # "error"

SnapshotReplied ==
    \A s \in Snaps :
        /\ captures[s] <= 1
        /\ captures[s] = 1 <=> captured[s] \in {"ok", "capture_file"}
        /\ spc[s] = "done" =>
              /\ captured[s] \in {"makedirs", "capture_file"} =>
                    /\ swfile[s] = ExpectedReply(500, "Failed to save snapshot.")
                    /\ slog[s] # <<>> /\ slog[s][1].level = "error"
              /\ (captured[s] = "ok" /\ NoErrorLogged(s)) =>
                    swfile[s] = ExpectedReply(200, "Snapshot saved.")
              /\ captured[s] # "none"

C10_StepOk ==
    /\ SnapshotReplied'
    /\ snapVars' # snapVars => UNCHANGED streamVars
    /\ \A s \in Snaps : spc[s] # "idle" => spc'[s] # "idle"

C10_SnapshotReply == [][C10_StepOk]_vars

\* A snapshot whose capture raised has been answered with the 500 reply
\* while a stream handler holds a frame.
C10_Witness ==
    \E s \in Snaps :
        /\ spc[s] = "done"
        /\ captured[s] = "capture_file"
        /\ swfile[s] = ExpectedReply(500, "Failed to save snapshot.")
        /\ \E r \in Readers : HoldsFrame(r)

\* ------------------------------------------------------------ C11
\* C11 as stated: a GET for the root path gets 301 with Location: /index.html
\* whatever query string follows the path.
C11_Original ==
    (req.method = "GET" /\ req.base = "/")
        => (resp.status = 301 /\ resp.location = "/index.html")

\* C11 (amended): a GET whose request target is exactly "/" gets 301 with
\* Location: /index.html; a GET for "/" followed by a query string is not the
\* root path for the handler and gets 404 with no Location.
C11_RootRedirect ==
    (req.method = "GET" /\ req.base = "/")
        => IF req.suffix = ""
           THEN resp.status = 301 /\ resp.location = "/index.html"
           ELSE resp.status = 404 /\ resp.location = ""

C11_Witness ==
    /\ req = [method |-> "GET", base |-> "/", suffix |-> "?x=1"]
    /\ resp.status = 404

\* ------------------------------------------------------------ C12
\* The branch the routing table gives a request path.
Expected_Route(p) ==
    CASE p = "/" -> "redirect"
      [] p = "/index.html" -> "page"
      [] p = "/stream.mjpg" -> "stream"
      [] p = "/snapshot" -> "snapshot"
      [] OTHER -> "not_found"

\* C12: a GET is dispatched to redirect, page, stream or snapshot exactly when
\* its path, query string and trailing slash included, equals "/",
\* "/index.html", "/stream.mjpg" or "/snapshot"; every other path (a case
\* variant, a trailing slash, a query string) gets 404.
C12_ExactRouting ==
    req.method = "GET"
        => /\ resp.route = Expected_Route(req.base \o req.suffix)
           /\ resp.route = "not_found" <=> resp.status = 404

C12_Witness ==
    /\ req.method = "GET"
    /\ req.base \o req.suffix \in {"/INDEX.HTML", "/snapshot/", "/stream.mjpg?x=1"}
    /\ resp.status = 404

\* ------------------------------------------------------------ C13
\* C13 as stated: a request with a method other than GET gets 404 on any path.
C13_Original ==
    req.method \in Methods \ {"GET"} => resp.status = 404

\* C13 (amended): a request with a method other than GET, on any path, gets
\* 501 (Unsupported method) from the base handler class; do_GET never runs
\* for it, so none of its branches, the 404 one included, is taken.
C13_NonGetUnsupported ==
    req.method \in Methods \ {"GET"}
        => resp.status = 501 /\ resp.route = "unsupported_method"

C13_Witness ==
    /\ req = [method |-> "POST", base |-> "/snapshot", suffix |-> ""]
    /\ resp.status = 501

\* ------------------------------------------------------------ C14
\* The steps of a snapshot handler itself.
SnapHandlerStep(s) ==
    \/ SnapStamp(s)
    \/ SnapCapture(s)
    \/ SnapSendSaved(s)
    \/ SnapWriteSaved(s)
    \/ SnapSendFailed(s)
    \/ SnapWriteFailed(s)

\* Two handlers took their timestamps in the same wall-clock second.
SameSecond(s, t) ==
    /\ stamp[s].set /\ stamp[t].set
    /\ Second(stamp[s].at) = Second(stamp[t].at)

\* C14: two /snapshot requests, one after the other or interleaved, whose
\* timestamps fall in the same second compute the same file name; the
\* directory holds at most one file per second, the one written last, so a
\* capture that succeeded leaves a file of its name, its own or the other's;
\* neither handler ever waits for the other; and each handler whose response
\* writes returned ends with the whole 200 reply or the whole 500 reply.
C14_SameSecondOverwrite ==
    /\ \A s, t \in Snaps : SameSecond(s, t) => stamp[s].name = stamp[t].name
    /\ \A f, g \in files : Second(f.at) = Second(g.at) => f = g
    /\ \A s \in Snaps :
          /\ captured[s] = "ok" =>
                \E f \in files : /\ f.name = stamp[s].name
                                 /\ Second(f.at) = Second(stamp[s].at)
          /\ spc[s] \notin {"done", "crashed"} => ENABLED SnapHandlerStep(s)
          /\ (spc[s] = "done" /\ (captured[s] = "ok" => NoErrorLogged(s))) =>
                swfile[s] \in {ExpectedReply(200, "Snapshot saved."),
                               ExpectedReply(500, "Failed to save snapshot.")}

\* Two handlers took their timestamps at different moments of one second,
\* both captures succeeded, the one with the earlier timestamp wrote last,
\* one file is left and both have sent the 200 reply.
C14_Witness ==
    \E s, t \in Snaps :
        /\ stamp[s].set /\ stamp[t].set
        /\ stamp[s].at < stamp[t].at
        /\ Second(stamp[s].at) = Second(stamp[t].at)
        /\ captured[s] = "ok" /\ captured[t] = "ok"
        /\ files = {[name |-> stamp[t].name, at |-> stamp[s].at, by |-> s]}
        /\ spc[s] = "done" /\ spc[t] = "done"
        /\ swfile[s] = ExpectedReply(200, "Snapshot saved.")
        /\ swfile[t] = ExpectedReply(200, "Snapshot saved.")

\* ------------------------------------------------------------ C15
\* The transform has been computed from a command line argparse accepts.
TransformSet == mpc \notin {"start", "parsed"} /\ argFlip \in Choices \cup {"omitted"}

\* C15: the transform asks for horizontal mirroring exactly for --flip h and
\* hv, for vertical mirroring exactly for v and hv, and for neither for none
\* or an omitted flag.
C15_FlipMapping ==
    TransformSet
        => /\ transform.hflip <=> argFlip \in {"h", "hv"}
           /\ transform.vflip <=> argFlip \in {"v", "hv"}

C15_Witness ==
    /\ argFlip = "hv"
    /\ mpc = "serving"
    /\ transform = [hflip |-> TRUE, vflip |-> TRUE]

\* ------------------------------------------------------------ C19
\* The positions of a call in the trace.
At(call) == { i \in 1..Len(trace) : trace[i] = call }

ListenerCalls == At("create_server") \cup At("create_server_failed") \cup At("serve_forever")

\* C19: recording is started at most once and before the listener is created
\* or serves; it is stopped at most once and after the listener's last step;
\* and once recording has started, every exit of the program has stopped it,
\* the exits through a failed creation of the listener and through an
\* interrupt included.
C19_Lifecycle ==
    /\ Cardinality(At("start_recording")) <= 1
    /\ Cardinality(At("stop_recording")) <= 1
    /\ \A i \in ListenerCalls : \E j \in At("start_recording") : j < i
    /\ \A k \in At("stop_recording") :
          /\ \A i \in ListenerCalls : i < k
          /\ \E j \in At("start_recording") : j < k
    /\ (mpc = "exited" /\ At("start_recording") # {}) => At("stop_recording") # {}

C19_Witness ==
    /\ mpc = "exited"
    /\ trace = << "start_recording", "create_server_failed", "stop_recording" >>

\* ------------------------------------------------------------ C16
\* The number of part bodies among the first i tokens a handler has written.
BodiesUpTo(r, i) == Cardinality({ j \in 1..i : wfile[r][j].k = "bytes" })

\* C16: the frame a handler holds stays the frame of one publish whatever is
\* published meanwhile; each part body it has written is, in full, the bytes
\* of the frame it obtained for that part, and the Content-Length header
\* written before it gives the length of exactly those bytes.
C16_NoTornFrame ==
    \A r \in Readers :
        /\ HoldsFrame(r) => local[r] = published[Last(obtained[r])]
        /\ \A i \in 1..Len(wfile[r]) :
              wfile[r][i].k = "bytes" =>
                  /\ wfile[r][i].b = published[obtained[r][BodiesUpTo(r, i)]].bytes
                  /\ wfile[r][i - 2] = HeaderN("Content-Length", Len(wfile[r][i].b))

\* A handler has written the body of its part while the sink already holds a
\* later frame of another length.
C16_Witness ==
    \E r \in Readers :
        /\ pc[r] = "crlf"
        /\ frame.id > Last(obtained[r])
        /\ Len(frame.bytes) # Len(local[r].bytes)
        /\ Last(wfile[r]) = Bytes(local[r].bytes)

\* ------------------------------------------------------------ C17
\* C17: the sink holds no frame before the first publish and afterwards
\* exactly the frame of the most recent publish, as one whole value; the
\* assignment and the rest of a publish that holds the lock can always be
\* taken, whatever the handlers are doing.
C17_SingleLatestFrame ==
    /\ frame = IF published = <<>> THEN None ELSE Last(published)
    /\ frame.id = Len(published)
    /\ frame.some => frame.bytes \in Frames
    /\ wpc = "entered" => ENABLED WriteStore
    /\ wpc = "stored" => ENABLED WriteNotifyAll
    /\ wpc = "notifying" => ENABLED WriteExit

\* The last publish has replaced the frame while a stalled handler is still
\* sending the first one.
C17_Witness ==
    /\ Len(published) = MaxPublish
    /\ frame = published[MaxPublish]
    /\ wpc = "idle"
    /\ \E r \in Readers :
          /\ conn[r] = "stalled"
          /\ pc[r] \in WritePcs
          /\ local[r] = published[1]

\* ------------------------------------------------------------ C18
\* The scheduler runs a thread that can run: the capture thread goes on with
\* its write when it can, and a handler that holds the lock goes on to its
\* wait or to the end of its with block. Nothing is assumed of the clients
\* or of how soon a handler comes back for the lock.
FairSpec ==
    /\ Spec
    /\ WF_vars(ProducerStep)
    /\ \A r \in Readers : WF_vars(LockedStep(r))

\* C18: the condition's lock is the only lock there is and a handler never
\* holds it while it writes to its socket; so, with any handlers in any
\* positions, every publish the capture thread has to make gets the lock,
\* stores its frame and releases the lock again: the run reaches the state
\* where all MaxPublish publishes are complete and the lock is free.
C18_PublishCompletes ==
    /\ [](\A r \in Readers : pc[r] \in WritePcs => lockOwner # r)
    /\ <>(Len(published) = MaxPublish /\ wpc = "idle" /\ lockOwner = NoOwner)

\* Every publish has completed although a handler contended for the lock
\* each time and another is stalled in a write.
C18_Witness ==
    /\ Len(published) = MaxPublish
    /\ wpc = "idle"
    /\ lockOwner = NoOwner
    /\ \E r, q \in Readers :
          /\ Len(obtained[r]) = MaxPublish
          /\ pc[q] \in WritePcs /\ conn[q] = "stalled"

\* ------------------------------------------------------------ C20
\* The status lines a snapshot handler has written to its socket.
StatusLinesSent(s) == { i \in 1..Len(swfile[s]) : swfile[s][i].k = "status" }

\* C20: a /snapshot handler writes at most one status line to its
\* connection, and a handler that has ended with its writes done has written
\* exactly one; once the 200 status is out, no 500 status follows it.
C20_OneStatusLine ==
    \A s \in Snaps :
        /\ Cardinality(StatusLinesSent(s)) <= 1
        /\ spc[s] = "done" => Cardinality(StatusLinesSent(s)) = 1

====
